---- MODULE Spec2Model ----
(***************************************************************************)
(* Model of networkModel.py (Cluster, Message, MessageModel, Job) and of   *)
(* the driver loop of run.py.  The source is Python 2: `/` on two ints is  *)
(* floor division, range() returns a list, shuffle() permutes it in place. *)
(*                                                                         *)
(* Host ids and ranks are 0-based as in the source; a Python list l is the *)
(* sequence whose element i+1 is l[i].  A bandwidth is an exact rational   *)
(* <<n, d>> (n/d, d > 0); the source computes it in double precision,      *)
(* which orders the small quotients used here exactly as the rationals.    *)
(***************************************************************************)
EXTENDS Integers, Sequences, FiniteSets, TLC

VARIABLES cluster, job, messages, islandCounts, pattern, annotated, calls, err

vars == <<cluster, job, messages, islandCounts, pattern, annotated, calls, err>>

(* ------------------------------ bounds --------------------------------- *)
\* clusters of at most MaxIslands islands and MaxNodes nodes in all
MaxIslands == 4
MaxNodes == 8
MaxDistance == 4

(* ----------------------------- rationals ------------------------------- *)
Rat(n, d) == <<n, d>>
RatLT(a, b) == a[1] * b[2] < b[1] * a[2]
RatLE(a, b) == a[1] * b[2] <= b[1] * a[2]
RatEq(a, b) == a[1] * b[2] = b[1] * a[2]

\* Python's builtin min(a, b): the first argument unless the second is smaller
pyMin(a, b) == IF RatLT(b, a) THEN b ELSE a

(* ------------------------------ Cluster -------------------------------- *)
Cluster(numIslands, nodesPerIsland, islandBandwidth, singleNodeBandwidth) ==
    [numIslands |-> numIslands,
     nodesPerIsland |-> nodesPerIsland,
     islandBandwidth |-> islandBandwidth,
     singleNodeBandwidth |-> singleNodeBandwidth,
     numNodes |-> numIslands * nodesPerIsland]

\* default arguments of Cluster.__init__, the only bandwidths run.py uses
DefaultIslandBandwidth == 7
DefaultSingleNodeBandwidth == 4

\* <<islandBandwidth, singleNodeBandwidth>>: the defaults, where one island link
\* carries more than a node can take, and an island link slower than a node
BandwidthPairs ==
    {<<DefaultIslandBandwidth, DefaultSingleNodeBandwidth>>,
     <<DefaultSingleNodeBandwidth - 1, DefaultSingleNodeBandwidth>>}

Clusters ==
    {c \in {Cluster(ni, npi, bw[1], bw[2]) :
                ni \in 1..MaxIslands, npi \in 1..MaxNodes, bw \in BandwidthPairs} :
        c.numNodes <= MaxNodes}

(* ------------------------------ Message -------------------------------- *)
\* island1/island2 do not exist on a Message until setIslands is called
NoIsland == -1

Message(rank1, rank2, host1, host2) ==
    [rank1 |-> rank1, rank2 |-> rank2, host1 |-> host1, host2 |-> host2,
     bandwidth |-> Rat(0, 1), island1 |-> NoIsland, island2 |-> NoIsland]

(* -------------------------------- Job ---------------------------------- *)
\* self.hosts does not exist until an allocate* method has run
Job(numRanks) == [numRanks |-> numRanks, hosts |-> <<>>, strategy |-> "none"]

\* range(n) as a list
Range(n) == [i \in 1..n |-> i - 1]

\* l[i] of a Python list exists
InRange(l, i) == i >= 0 /\ i < Len(l)

\* l[i] of a Python list
At(l, i) == l[i + 1]

packedHosts(numRanks, c) == Range(numRanks)

\* int(ceil(numNodes/numRanks)): the quotient of two ints is already floored
scatterInterval(numRanks, c) == c.numNodes \div numRanks

RECURSIVE scatterLoop(_, _, _, _, _)
scatterLoop(i, numRanks, interval, c, hosts) ==
    IF i >= numRanks THEN hosts
    ELSE IF i * interval < c.numNodes
         THEN scatterLoop(i + 1, numRanks, interval, c, Append(hosts, i * interval))
         ELSE scatterLoop(i + 1, numRanks, interval, c, Append(hosts, At(hosts, i - 1) + 1))

scatteredHosts(numRanks, c) ==
    scatterLoop(0, numRanks, scatterInterval(numRanks, c), c, <<>>)

\* int(ceil(numRanks/numIslands)): the quotient of two ints is already floored
numRanksPerIsland(numRanks, c) == numRanks \div c.numIslands

RECURSIVE splitRankLoop(_, _, _, _, _)
splitRankLoop(i, r, perIsland, c, hosts) ==
    IF r >= perIsland THEN hosts
    ELSE LET host == i * c.nodesPerIsland + r
         IN  splitRankLoop(i, r + 1, perIsland, c,
                           IF host < c.numNodes THEN Append(hosts, host) ELSE hosts)

RECURSIVE splitIslandLoop(_, _, _, _)
splitIslandLoop(i, perIsland, c, hosts) ==
    IF i >= c.numIslands THEN hosts
    ELSE splitIslandLoop(i + 1, perIsland, c, splitRankLoop(i, 0, perIsland, c, hosts))

splitIslandsHosts(numRanks, c) ==
    splitIslandLoop(0, numRanksPerIsland(numRanks, c), c, <<>>)

\* list.sort() of a list of distinct ints, given as the set of its elements
RECURSIVE sortAscending(_)
sortAscending(S) ==
    IF S = {} THEN <<>>
    ELSE LET m == CHOOSE x \in S : \A y \in S : x <= y
         IN  <<m>> \o sortAscending(S \ {m})

\* the sets allHosts[0:numRanks] can hold after shuffle(allHosts): the prefix of
\* a permutation of range(numNodes) is any set of min(numRanks, numNodes) hosts
shuffledPrefixes(numRanks, c) ==
    {S \in SUBSET (0..(c.numNodes - 1)) :
        Cardinality(S) = IF numRanks < c.numNodes THEN numRanks ELSE c.numNodes}

\* the sort left out or reversed: the prefix in descending order
RECURSIVE sortDescending(_)
sortDescending(S) ==
    IF S = {} THEN <<>>
    ELSE LET m == CHOOSE x \in S : \A y \in S : x >= y
         IN  <<m>> \o sortDescending(S \ {m})

randomHostsUnsorted(S) == sortDescending(S)

randomHosts(S) == sortAscending(S)

(* ------------------------------- state --------------------------------- *)
Init ==
    /\ cluster \in Clusters
    /\ job \in {Job(n) : n \in 1..MaxNodes}
    /\ job.numRanks <= cluster.numNodes
    /\ messages = <<>>
    /\ islandCounts = <<>>
    /\ pattern = [name |-> "none", distance |-> 0]
    /\ annotated = FALSE
    /\ calls = "none"
    /\ err = "none"

allocate(strategy, hosts) ==
    /\ err = "none"
    /\ job.strategy = "none"
    /\ job' = [job EXCEPT !.hosts = hosts, !.strategy = strategy]
    /\ UNCHANGED <<cluster, messages, islandCounts, pattern, annotated, calls, err>>

allocatePacked == allocate("packed", packedHosts(job.numRanks, cluster))

allocateScattered == allocate("scattered", scatteredHosts(job.numRanks, cluster))

allocateSplitIslands == allocate("splitIslands", splitIslandsHosts(job.numRanks, cluster))

allocateRandom ==
    \E S \in shuffledPrefixes(job.numRanks, cluster) : allocate("random", randomHosts(S))

(* ---------------------------- MessageModel ----------------------------- *)
\* inner loop of setPairedMessagesByDistance: for rank in range(distance)
RECURSIVE pairRankLoop(_, _, _, _, _)
pairRankLoop(hosts, blockIndex, distance, rank, acc) ==
    IF rank >= distance \/ acc.err # "none" THEN acc
    ELSE LET rank1 == blockIndex + rank
             rank2 == blockIndex + rank + distance
         IN  IF InRange(hosts, rank1) /\ InRange(hosts, rank2)
             THEN pairRankLoop(hosts, blockIndex, distance, rank + 1,
                      [acc EXCEPT !.messages =
                          Append(@, Message(rank1, rank2, At(hosts, rank1), At(hosts, rank2)))])
             ELSE [acc EXCEPT !.err = "IndexError"]

\* the outer loop with blockIndex advancing by distance only
RECURSIVE pairBlockLoopStride(_, _, _, _, _, _)
pairBlockLoopStride(hosts, numBlocks, distance, block, blockIndex, acc) ==
    IF block >= numBlocks \/ acc.err # "none" THEN acc
    ELSE pairBlockLoopStride(hosts, numBlocks, distance, block + 1, blockIndex + distance,
                             pairRankLoop(hosts, blockIndex, distance, 0, acc))

\* outer loop: for block in range(numBlocks), blockIndex advancing by 2*distance
RECURSIVE pairBlockLoop(_, _, _, _, _, _)
pairBlockLoop(hosts, numBlocks, distance, block, blockIndex, acc) ==
    IF block >= numBlocks \/ acc.err # "none" THEN acc
    ELSE pairBlockLoop(hosts, numBlocks, distance, block + 1, blockIndex + distance * 2,
                       pairRankLoop(hosts, blockIndex, distance, 0, acc))

\* the list built by setPairedMessagesByDistance, or the exception it raises
pairedMessagesByDistance(j, distance) ==
    IF 2 * distance = 0
    THEN [messages |-> <<>>, err |-> "ZeroDivisionError"]
    ELSE pairBlockLoop(j.hosts, j.numRanks \div (2 * distance), distance, 0, 0,
                       [messages |-> <<>>, err |-> "none"])

RECURSIVE oneToAllLoop(_, _, _, _)
oneToAllLoop(hosts, numRanks, rank, acc) ==
    IF rank >= numRanks \/ acc.err # "none" THEN acc
    ELSE IF InRange(hosts, 0) /\ InRange(hosts, rank)
         THEN oneToAllLoop(hosts, numRanks, rank + 1,
                  [acc EXCEPT !.messages =
                      Append(@, Message(0, rank, At(hosts, 0), At(hosts, rank)))])
         ELSE [acc EXCEPT !.err = "IndexError"]

\* the list built by setOneToAllMessages, or the exception it raises
oneToAllMessages(j) ==
    oneToAllLoop(j.hosts, j.numRanks, 0, [messages |-> <<>>, err |-> "none"])

\* self.messages is assigned only when the method reaches its last statement
setPattern(name, distance, built) ==
    /\ err = "none"
    /\ job.strategy # "none"
    /\ pattern' = [name |-> name, distance |-> distance]
    /\ err' = built.err
    /\ messages' = IF built.err = "none" THEN built.messages ELSE messages
    /\ annotated' = IF built.err = "none" THEN FALSE ELSE annotated
    /\ UNCHANGED <<cluster, job, islandCounts, calls>>

setPairedMessages ==
    setPattern("paired", job.numRanks \div 2,
               pairedMessagesByDistance(job, job.numRanks \div 2))

setPairedMessagesByDistance ==
    \E distance \in 1..MaxDistance :
        setPattern("pairedByDistance", distance, pairedMessagesByDistance(job, distance))

setOneToAllMessages == setPattern("oneToAll", 0, oneToAllMessages(job))

\* int(floor(host/float(nodesPerIsland))) for a host id >= 0
islandOf(host, c) == host \div c.nodesPerIsland

\* the counter array kept from the previous call instead of a fresh one
staleCounts(c) ==
    IF Len(islandCounts) = c.numIslands THEN islandCounts ELSE [i \in 1..c.numIslands |-> 0]

\* np.zeros(cluster.numIslands, dtype=int)
zeroCounts(c) == [i \in 1..c.numIslands |-> 0]

\* first loop of setBandwidths: setIslands on every message and count, per
\* island, the messages that leave or enter it
RECURSIVE countLoop(_, _, _)
countLoop(c, k, acc) ==
    IF k > Len(acc.messages) \/ acc.err # "none" THEN acc
    ELSE LET m == acc.messages[k]
             island1 == islandOf(m.host1, c)
             island2 == islandOf(m.host2, c)
             marked == [acc.messages EXCEPT ![k].island1 = island1, ![k].island2 = island2]
         IN  IF island1 = island2
             THEN countLoop(c, k + 1, [acc EXCEPT !.messages = marked])
             ELSE IF InRange(acc.counts, island1) /\ InRange(acc.counts, island2)
                  THEN countLoop(c, k + 1,
                           [acc EXCEPT !.messages = marked,
                                       !.counts = [[@ EXCEPT ![island1 + 1] = @ + 1]
                                                      EXCEPT ![island2 + 1] = @ + 1]])
                  ELSE [acc EXCEPT !.messages = marked, !.err = "IndexError"]

\* the fair shares without the point-to-point ceiling
messageBandwidthUncapped(m, c, counts) ==
    IF m.island1 # m.island2
    THEN pyMin(Rat(c.islandBandwidth, At(counts, m.island1)),
               Rat(c.islandBandwidth, At(counts, m.island2)))
    ELSE Rat(c.singleNodeBandwidth, 1)

\* local traffic charged the island ceiling instead of the node ceiling
messageBandwidthIntraShared(m, c, counts) ==
    IF m.island1 # m.island2
    THEN pyMin(pyMin(Rat(c.singleNodeBandwidth, 1), Rat(c.islandBandwidth, At(counts, m.island1))),
               pyMin(Rat(c.singleNodeBandwidth, 1), Rat(c.islandBandwidth, At(counts, m.island2))))
    ELSE Rat(c.islandBandwidth, 1)

\* only the sender island's share taken into account
messageBandwidthSenderOnly(m, c, counts) ==
    IF m.island1 # m.island2
    THEN pyMin(Rat(c.singleNodeBandwidth, 1), Rat(c.islandBandwidth, At(counts, m.island1)))
    ELSE Rat(c.singleNodeBandwidth, 1)

\* the bandwidth the second loop gives one message
messageBandwidth(m, c, counts) ==
    IF m.island1 # m.island2
    THEN LET sharedIslandBw1 == Rat(c.islandBandwidth, At(counts, m.island1))
             bw1 == pyMin(Rat(c.singleNodeBandwidth, 1), sharedIslandBw1)
             sharedIslandBw2 == Rat(c.islandBandwidth, At(counts, m.island2))
             bw2 == pyMin(Rat(c.singleNodeBandwidth, 1), sharedIslandBw2)
         IN  pyMin(bw1, bw2)
    ELSE Rat(c.singleNodeBandwidth, 1)

\* second loop of setBandwidths
RECURSIVE bandwidthLoop(_, _, _)
bandwidthLoop(c, k, acc) ==
    IF k > Len(acc.messages) \/ acc.err # "none" THEN acc
    ELSE LET m == acc.messages[k]
         IN  IF m.island1 # m.island2
                /\ (At(acc.counts, m.island1) = 0 \/ At(acc.counts, m.island2) = 0)
             THEN [acc EXCEPT !.err = "ZeroDivisionError"]
             ELSE bandwidthLoop(c, k + 1,
                      [acc EXCEPT !.messages[k].bandwidth = messageBandwidth(m, c, acc.counts)])

\* messages are mutated in place, so what an exception leaves behind stays
setBandwidths ==
    /\ err = "none"
    /\ job.strategy # "none"
    /\ LET counted == countLoop(cluster, 1,
                          [messages |-> messages, counts |-> zeroCounts(cluster), err |-> "none"])
           done == bandwidthLoop(cluster, 1, counted)
       IN  /\ messages' = done.messages
           /\ islandCounts' = done.counts
           /\ err' = done.err
           /\ annotated' = (done.err = "none")
    /\ calls' = IF calls = "none" THEN "once" ELSE "repeated"
    /\ UNCHANGED <<cluster, job, pattern>>

Next ==
    \/ allocatePacked
    \/ allocateScattered
    \/ allocateSplitIslands
    \/ allocateRandom
    \/ setPairedMessages
    \/ setPairedMessagesByDistance
    \/ setOneToAllMessages
    \/ setBandwidths

Spec == Init /\ [][Next]_vars

(* ============================== properties ============================== *)
Idx == 1..Len(messages)
NodeCeiling == Rat(cluster.singleNodeBandwidth, 1)
SenderIsland(k) == messages[k].host1 \div cluster.nodesPerIsland
ReceiverIsland(k) == messages[k].host2 \div cluster.nodesPerIsland
IsCross(k) == SenderIsland(k) # ReceiverIsland(k)
CrossSet == {k \in Idx : IsCross(k)}
\* number of cross-island messages with island x as sender or receiver island
CrossCount(x) == Cardinality({k \in CrossSet : SenderIsland(k) = x \/ ReceiverIsland(k) = x})
\* a is the least of the rationals in S
IsLeast(a, S) == (\E b \in S : RatEq(a, b)) /\ (\A b \in S : RatLE(a, b))
HostsInRange == \A k \in Idx : /\ messages[k].host1 \in 0..(cluster.numNodes - 1)
                               /\ messages[k].host2 \in 0..(cluster.numNodes - 1)

\* C1: after setBandwidths on messages whose hosts all lie in [0, numNodes),
\* every bandwidth is > 0 and <= singleNodeBandwidth.
C1_BandwidthBounds ==
    (annotated /\ HostsInRange) =>
        \A k \in Idx : /\ RatLT(Rat(0, 1), messages[k].bandwidth)
                       /\ RatLE(messages[k].bandwidth, NodeCeiling)

\* a set with a message at the node ceiling and a cross-island one below it
C1_Witness ==
    /\ annotated /\ HostsInRange
    /\ \E k \in CrossSet : RatLT(messages[k].bandwidth, NodeCeiling)
    /\ \E k \in Idx : RatEq(messages[k].bandwidth, NodeCeiling)

\* C2: after setBandwidths, a message whose two hosts are on the same island
\* has bandwidth exactly singleNodeBandwidth, whatever else is in the set.
C2_IntraIslandFull ==
    annotated =>
        \A k \in Idx : ~IsCross(k) => RatEq(messages[k].bandwidth, NodeCeiling)

\* an intra-island message next to a cross-island one that is slowed down
C2_Witness ==
    /\ annotated
    /\ cluster.islandBandwidth # cluster.singleNodeBandwidth
    /\ \E k \in Idx : ~IsCross(k) /\ messages[k].host1 # messages[k].host2
    /\ \E k \in CrossSet : RatLT(messages[k].bandwidth, NodeCeiling)

\* C3: after setBandwidths, a cross-island message has bandwidth
\* min(singleNodeBandwidth, islandBandwidth/c[island1], islandBandwidth/c[island2])
\* with c[x] >= 1 the number of cross-island messages touching island x; k cross
\* messages that all join one island pair each get min(singleNodeBandwidth,
\* islandBandwidth/k).
C3_CrossIslandShare ==
    annotated =>
        /\ \A k \in CrossSet :
              /\ CrossCount(SenderIsland(k)) >= 1
              /\ CrossCount(ReceiverIsland(k)) >= 1
              /\ IsLeast(messages[k].bandwidth,
                         {NodeCeiling,
                          Rat(cluster.islandBandwidth, CrossCount(SenderIsland(k))),
                          Rat(cluster.islandBandwidth, CrossCount(ReceiverIsland(k)))})
        /\ (\A k, l \in CrossSet :
                {SenderIsland(k), ReceiverIsland(k)} = {SenderIsland(l), ReceiverIsland(l)})
            => \A k \in CrossSet :
                  IsLeast(messages[k].bandwidth,
                          {NodeCeiling, Rat(cluster.islandBandwidth, Cardinality(CrossSet))})

\* a cross-island message whose two islands carry different loads, bounded by
\* the busier one
C3_Witness ==
    /\ annotated
    /\ \E k \in CrossSet :
          /\ CrossCount(SenderIsland(k)) < CrossCount(ReceiverIsland(k))
          /\ RatEq(messages[k].bandwidth,
                   Rat(cluster.islandBandwidth, CrossCount(ReceiverIsland(k))))
          /\ RatLT(messages[k].bandwidth,
                   pyMin(NodeCeiling, Rat(cluster.islandBandwidth, CrossCount(SenderIsland(k)))))

HostSeqValid(hosts, numRanks, c) ==
    /\ Len(hosts) = numRanks
    /\ \A i \in 1..Len(hosts) : hosts[i] \in 0..(c.numNodes - 1)
    /\ \A i, j \in 1..Len(hosts) : i # j => hosts[i] # hosts[j]

\* C4: for every allocation strategy and 1 <= numRanks <= numNodes, job.hosts
\* has length numRanks, every host id is in [0, numNodes), and the host ids are
\* pairwise distinct.
C4_AllocationValid ==
    (job.strategy # "none" /\ job.numRanks >= 1 /\ job.numRanks <= cluster.numNodes)
        => HostSeqValid(job.hosts, job.numRanks, cluster)

CeilDiv(a, b) == (a + b - 1) \div b

\* hosts i*nodesPerIsland + r for island i in order and r in [0, blk), those < numNodes
SplitBlocks(blk, c) ==
    SelectSeq([k \in 1..(c.numIslands * blk) |->
                  ((k - 1) \div blk) * c.nodesPerIsland + ((k - 1) % blk)],
              LAMBDA h : h < c.numNodes)

\* C5: allocateSplitIslands emits, island by island, the hosts
\* i*nodesPerIsland + r for r in [0, ceil(numRanks/numIslands)) that are
\* < numNodes; the block size is the ceiling also when numRanks is not a
\* multiple of numIslands.
C5_SplitIslandsCeil ==
    job.strategy = "splitIslands" =>
        job.hosts = SplitBlocks(CeilDiv(job.numRanks, cluster.numIslands), cluster)

\* C9: allocateScattered uses interval = ceil(numNodes/numRanks); rank i gets
\* i*interval when that is < numNodes, otherwise the host of rank i-1 plus 1.
C9_ScatteredCeil ==
    job.strategy = "scattered" =>
        LET interval == CeilDiv(cluster.numNodes, job.numRanks)
        IN  /\ Len(job.hosts) = job.numRanks
            /\ \A i \in 0..(job.numRanks - 1) :
                  At(job.hosts, i) = IF i * interval < cluster.numNodes
                                     THEN i * interval
                                     ELSE At(job.hosts, i - 1) + 1

\* the list of (b*2d + i, b*2d + i + d) for block b and i in [0, d), in order
PairsByDistance(numRanks, d) ==
    [k \in 1..((numRanks \div (2 * d)) * d) |->
        LET b == (k - 1) \div d
            i == (k - 1) % d
        IN  <<b * 2 * d + i, b * 2 * d + i + d>>]

RanksOf(k) == <<messages[k].rank1, messages[k].rank2>>
Occurrences(r) == Cardinality({k \in Idx : messages[k].rank1 = r})
                  + Cardinality({k \in Idx : messages[k].rank2 = r})

\* C6: setPairedMessagesByDistance(job, d), d >= 1, sets the message list to
\* the messages (b*2d + i, b*2d + i + d), block by block, each with
\* hosts[rank1], hosts[rank2] and bandwidth 0; if 2d divides numRanks every
\* rank is in exactly one of the numRanks/2 messages, otherwise the ranks of
\* the last partial block are in none; d=1 on four ranks gives (0,1), (2,3).
C6_PairedByDistance ==
    (pattern.name = "pairedByDistance" /\ err = "none") =>
        LET d == pattern.distance
            n == job.numRanks
            pairs == PairsByDistance(n, d)
        IN  /\ Len(messages) = Len(pairs)
            /\ \A k \in Idx :
                  /\ RanksOf(k) = pairs[k]
                  /\ messages[k].host1 = At(job.hosts, pairs[k][1])
                  /\ messages[k].host2 = At(job.hosts, pairs[k][2])
                  /\ ~annotated => messages[k].bandwidth = Rat(0, 1)
            /\ (n % (2 * d) = 0) =>
                  /\ 2 * Len(messages) = n
                  /\ \A r \in 0..(n - 1) : Occurrences(r) = 1
            /\ (n % (2 * d) # 0) =>
                  /\ \A r \in ((n \div (2 * d)) * 2 * d)..(n - 1) : Occurrences(r) = 0
                  /\ \A r \in 0..((n \div (2 * d)) * 2 * d - 1) : Occurrences(r) = 1
            /\ (d = 1 /\ n = 4 /\ job.hosts = <<0, 1, 2, 3>>) =>
                  /\ Len(messages) = 2
                  /\ RanksOf(1) = <<0, 1>>
                  /\ RanksOf(2) = <<2, 3>>

\* two full blocks of distance 1 followed by a rank that is left out
C6_Witness ==
    /\ pattern.name = "pairedByDistance" /\ err = "none" /\ ~annotated
    /\ pattern.distance = 1 /\ job.numRanks = 5
    /\ Len(job.hosts) = 5
    /\ Len(messages) = 2
    /\ RanksOf(2) = <<2, 3>>

C8_SelfContained ==
    [][/\ annotated' =>
            /\ islandCounts' = [i \in 1..cluster.numIslands |->
                                   Cardinality({k \in 1..Len(messages') :
                                       LET s == messages'[k].host1 \div cluster.nodesPerIsland
                                           r == messages'[k].host2 \div cluster.nodesPerIsland
                                       IN  s # r /\ (s = i - 1 \/ r = i - 1)})]
            /\ \A k \in 1..Len(messages') :
                  /\ messages'[k].island1 = messages'[k].host1 \div cluster.nodesPerIsland
                  /\ messages'[k].island2 = messages'[k].host2 \div cluster.nodesPerIsland
       /\ (annotated /\ annotated') => messages' = messages]_vars

\* a second setBandwidths on the reused model, after counters were non-zero
C8_Witness ==
    /\ annotated
    /\ calls = "repeated"
    /\ CrossSet # {}
    /\ \E k \in CrossSet : RatLT(messages[k].bandwidth, NodeCeiling)

\* C10: with 2 <= numRanks <= numNodes and 1 <= d <= numRanks/2, no pattern
\* method reads hosts[] out of range and setBandwidths neither indexes an island
\* outside [0, numIslands) nor divides by zero, for every allocation strategy.
C10_PipelineIndexSafe ==
    (/\ job.numRanks >= 2 /\ job.numRanks <= cluster.numNodes
     /\ pattern.name = "pairedByDistance" =>
            (pattern.distance >= 1 /\ 2 * pattern.distance <= job.numRanks))
        => err = "none"
====
